---- MODULE Spec2Model ----
(***************************************************************************)
(* Model of servicenow.py: the transport helper _make_servicenow_request,  *)
(* the read helper sn_get and the ten tool coroutines built on them.       *)
(*                                                                         *)
(* A text (a Python str, an HTTP body) is a sequence of tokens.  A token   *)
(* is a single character, or an atom that stands for one fixed run of      *)
(* literal text of the source (for instance "Error creating incident: "). *)
(* A Python / JSON value is a tagged record [t |-> tag, v |-> ...]:        *)
(*   "str"  v is a text          "null" None / null                        *)
(*   "int"  v is an integer      "bool" v is a BOOLEAN                     *)
(*   "arr"  v is a sequence of values (a list)                             *)
(*   "obj"  v is a sequence of [k |-> key, v |-> value] (a dict, ordered)  *)
(*   "raw"  v is a text that is not JSON (bodies only)                     *)
(***************************************************************************)
EXTENDS Integers, Sequences, FiniteSets, TLC

VARIABLES pc, tool, args, sent, recv, frame, ret

vars == <<pc, tool, args, sent, recv, frame, ret>>

(* ------------------------------ texts --------------------------------- *)

DQ == "\""
BS == "\\"

\* needle occurs in hay as a contiguous run (Python's `needle in hay`).
Contains(hay, needle) ==
    \E k \in 0..(Len(hay) - Len(needle)) :
        SubSeq(hay, k + 1, k + Len(needle)) = needle

RECURSIVE Join(_, _)
\* sep.join(parts)
Join(parts, sep) ==
    IF Len(parts) = 0 THEN <<>>
    ELSE IF Len(parts) = 1 THEN parts[1]
    ELSE parts[1] \o sep \o Join(Tail(parts), sep)

DigitChar(d) == <<"0", "1", "2", "3", "4", "5", "6", "7", "8", "9">>[d + 1]

RECURSIVE NatText(_)
NatText(n) == IF n < 10 THEN <<DigitChar(n)>>
              ELSE NatText(n \div 10) \o <<DigitChar(n % 10)>>

\* str(n) of a Python int
IntText(n) == IF n < 0 THEN <<"-">> \o NatText(0 - n) ELSE NatText(n)

(* ------------------------------ values -------------------------------- *)

JStr(s) == [t |-> "str", v |-> s]
JInt(n) == [t |-> "int", v |-> n]
JBool(b) == [t |-> "bool", v |-> b]
JArr(xs) == [t |-> "arr", v |-> xs]
JObj(fs) == [t |-> "obj", v |-> fs]
None == [t |-> "null", v |-> <<>>]
Raw(s) == [t |-> "raw", v |-> s]
F(key, val) == [k |-> key, v |-> val]

\* `key in d` for a dict d
HasKey(d, key) == \E j \in 1..Len(d.v) : d.v[j].k = key

\* d.get(key, default) for a dict d
DictGet(d, key, default) ==
    IF HasKey(d, key)
    THEN d.v[CHOOSE j \in 1..Len(d.v) : d.v[j].k = key].v
    ELSE default

\* Only a dict has the attribute `get`; on any other value `.get` raises
\* AttributeError.
HasGet(x) == x.t = "obj"

\* bool(x)
Truthy(x) ==
    CASE x.t = "str" -> Len(x.v) > 0
      [] x.t = "null" -> FALSE
      [] x.t = "int" -> x.v # 0
      [] x.t = "bool" -> x.v
      [] OTHER -> Len(x.v) > 0

\* str(x), as an f-string renders x
PyStr(x) ==
    CASE x.t = "str" -> x.v
      [] x.t = "null" -> <<"None">>
      [] x.t = "int" -> IntText(x.v)
      [] x.t = "bool" -> IF x.v THEN <<"T", "r", "u", "e">> ELSE <<"F", "a", "l", "s", "e">>
      [] OTHER -> <<"<repr>">>

UpperAlpha == <<"A", "B", "C", "D", "E", "F", "G", "H", "I", "J", "K", "L", "M",
                "N", "O", "P", "Q", "R", "S", "T", "U", "V", "W", "X", "Y", "Z">>
LowerAlpha == <<"a", "b", "c", "d", "e", "f", "g", "h", "i", "j", "k", "l", "m",
                "n", "o", "p", "q", "r", "s", "t", "u", "v", "w", "x", "y", "z">>

\* s.lower(): every upper-case letter becomes its lower-case letter.
Lower(s) ==
    [j \in 1..Len(s) |->
        IF \E u \in 1..Len(UpperAlpha) : UpperAlpha[u] = s[j]
        THEN LowerAlpha[CHOOSE u \in 1..Len(UpperAlpha) : UpperAlpha[u] = s[j]]
        ELSE s[j]]

(* --------------------------- the wire text ---------------------------- *)

\* JSON string escaping of one character
EscapeChar(c) == IF c = DQ THEN <<BS, DQ>>
                 ELSE IF c = BS THEN <<BS, BS>>
                 ELSE <<c>>

RECURSIVE Escape(_)
Escape(s) == IF Len(s) = 0 THEN <<>> ELSE EscapeChar(Head(s)) \o Escape(Tail(s))

RECURSIVE JsonText(_), ArrText(_), ObjText(_)
\* The text of a JSON body as the remote sends it (response.text).
JsonText(x) ==
    CASE x.t = "str" -> <<DQ>> \o Escape(x.v) \o <<DQ>>
      [] x.t = "null" -> <<"null">>
      [] x.t = "int" -> IntText(x.v)
      [] x.t = "bool" -> IF x.v THEN <<"true">> ELSE <<"false">>
      [] x.t = "arr" -> <<"[">> \o ArrText(x.v) \o <<"]">>
      [] x.t = "obj" -> <<"{">> \o ObjText(x.v) \o <<"}">>
      [] OTHER -> x.v
ArrText(xs) ==
    IF Len(xs) = 0 THEN <<>>
    ELSE IF Len(xs) = 1 THEN JsonText(xs[1])
    ELSE JsonText(xs[1]) \o <<",">> \o ArrText(Tail(xs))
ObjText(fs) ==
    IF Len(fs) = 0 THEN <<>>
    ELSE LET one == <<DQ, fs[1].k, DQ, ":">> \o JsonText(fs[1].v)
         IN  IF Len(fs) = 1 THEN one ELSE one \o <<",">> \o ObjText(Tail(fs))

(* ---------------------------- the remote ------------------------------ *)

NetFail == [kind |-> "net", status |-> 0, body |-> Raw(<<>>)]
Http(status, body) == [kind |-> "http", status |-> status, body |-> body]

ResponseText(r) == JsonText(r.body)

\* Values the remote puts in its records.
RemoteNumber == <<"I", "7">>
RemoteSysId == <<"x", "1">>
RemoteName == <<"r", "n">>
ErrMessage == <<"b", DQ, "q">>
ErrDetail == <<"d", "t">>

Rec1 == JObj(<<F("number", JStr(RemoteNumber)), F("short_description", JStr(<<"s", "d">>)),
               F("state", JStr(<<"N">>)), F("priority", JStr(<<"3">>)),
               F("risk", JStr(<<"L">>)), F("user_name", JStr(<<"u">>)),
               F("name", JStr(RemoteName)), F("email", JStr(<<"e">>)),
               F("active", JStr(<<"t", "r", "u", "e">>))>>)
Rec2 == JObj(<<>>)

\* The outcomes of one HTTP call that the model draws from.
Responses ==
    << NetFail,
       Http(201, JObj(<<F("result", JObj(<<F("number", JStr(RemoteNumber)),
                                          F("sys_id", JStr(RemoteSysId)),
                                          F("name", JStr(RemoteName))>>))>>)),
       Http(201, JObj(<<F("result", JObj(<<F("number", JStr(RemoteNumber)),
                                          F("sys_id", JStr(RemoteSysId))>>))>>)),
       Http(201, JObj(<<F("result", JObj(<<F("number", JStr(RemoteNumber)),
                                          F("sys_id", JStr(<<>>))>>))>>)),
       Http(201, JObj(<<F("result", JArr(<<Rec1>>))>>)),
       Http(201, JObj(<<>>)),
       Http(201, Raw(<<"<html>">>)),
       Http(204, Raw(<<>>)),
       Http(200, JObj(<<F("result", JArr(<<Rec1, Rec2>>))>>)),
       Http(200, JObj(<<F("result", JArr(<<>>))>>)),
       Http(202, JObj(<<>>)),
       Http(200, JObj(<<F("result", JObj(<<F("result", JArr(<<Rec1, Rec2>>))>>))>>)),
       Http(400, JObj(<<F("error", JObj(<<F("message", JStr(ErrMessage)),
                                         F("detail", JStr(ErrDetail))>>))>>)),
       Http(500, Raw(<<"<html>">>)) >>

(* ----------------------- the transport helper ------------------------- *)

\* How a Python call ends: it returns a value or raises an exception.
Return(x) == [ok |-> TRUE, val |-> x, exc |-> "", msg |-> <<>>]
Raise(type, text) == [ok |-> FALSE, val |-> None, exc |-> type, msg |-> text]

\* response.raise_for_status() raises HTTPStatusError ("for 4xx/5xx errors").
RaisesForStatus(status) == status >= 400

\* response.json(): the parsed body, or JSONDecodeError on a body that is
\* not JSON.
ResponseJson(r) ==
    IF r.body.t = "raw" THEN Raise("JSONDecodeError", <<"Expecting value">>)
    ELSE Return(r.body)

\* response.json().get(key, default): only a JSON object has `.get`.
JsonGet(r, key, default) ==
    LET j == ResponseJson(r)
    IN  IF ~j.ok THEN j
        ELSE IF ~HasGet(j.val)
        THEN Raise("AttributeError", <<"object has no attribute 'get'">>)
        ELSE Return(DictGet(j.val, key, default))

\* error_details of the HTTPStatusError handler
HttpErrorDetails(r) ==
    <<"HTTP Error: ">> \o IntText(r.status) \o <<" - ">> \o ResponseText(r)

\* The inner try block of the HTTPStatusError handler: it parses the error
\* body and always ends by raising.
ParseSnError(r) ==
    LET e == JsonGet(r, "error", JObj(<<>>))
    IN  IF ~e.ok THEN e
        ELSE IF ~HasGet(e.val)
        THEN Raise("AttributeError", <<"object has no attribute 'get'">>)
        ELSE LET message == DictGet(e.val, "message", JStr(<<"Unknown ServiceNow Error">>))
                 detail == DictGet(e.val, "detail", JStr(ResponseText(r)))
             IN  Raise("ValueError",
                       <<"ServiceNow API Error: ">> \o PyStr(message)
                           \o <<" - ">> \o PyStr(detail))

\* The except clauses of that inner try, in order: `except
\* json.JSONDecodeError` and then `except Exception`, which also catches the
\* ValueError the try block itself raises.  Both re-raise error_details.
HandleHttpStatusError(r) ==
    LET inner == ParseSnError(r)
    IN  IF inner.exc = "JSONDecodeError"
        THEN Raise("ValueError", HttpErrorDetails(r))
        ELSE Raise("ValueError", HttpErrorDetails(r))

\* The `except Exception` clause of the outer try.
HandleUnexpected(e) ==
    Raise("ValueError",
          <<"Unexpected error during ServiceNow request: ", e.exc, " - ">> \o e.msg)

\* HandleRequestError letting the transport's exception through.
HandleRequestError_reraise == Raise("ConnectError", <<"transport failure">>)

\* The `except httpx.RequestError` clause: a network-level failure
\* (connection refused, timeout, DNS) becomes a ValueError.
HandleRequestError ==
    Raise("ValueError",
          <<"Could not connect to ServiceNow: ", "Request Error: ", "transport failure">>)

\* The stand-in for a 201 body without `result`, with the 204 wording.
Synthetic201_no_content ==
    JObj(<<F("status", JStr(<<"success">>)),
           F("message", JStr(<<"Operation successful (No Content)">>))>>)

Synthetic204 == JObj(<<F("status", JStr(<<"success">>)),
                       F("message", JStr(<<"Operation successful (No Content)">>))>>)
Synthetic201 == JObj(<<F("status", JStr(<<"success">>)),
                       F("message", JStr(<<"Record created">>))>>)

\* _make_servicenow_request(endpoint, payload, method) when the remote's
\* outcome for the call is r.
_make_servicenow_request(method, r) ==
    IF method \notin {"POST", "GET"}
    THEN HandleUnexpected(Raise("ValueError", <<"Unsupported HTTP method: ", method>>))
    ELSE IF r.kind = "net"
    THEN HandleRequestError
    ELSE IF RaisesForStatus(r.status)
    THEN HandleHttpStatusError(r)
    ELSE IF r.status = 204
    THEN Return(Synthetic204)
    ELSE LET got == IF r.status = 201 THEN JsonGet(r, "result", Synthetic201)
                    ELSE JsonGet(r, "result", JObj(<<>>))
         IN  IF got.ok THEN got ELSE HandleUnexpected(got)

\* sn_get(table, limit): the request it builds
sn_get(table, limit) ==
    [method |-> "GET",
     endpoint |-> <<"api/now/table/", table>>,
     payload |-> JObj(<<F("sysparm_limit", JInt(limit)),
                        F("sysparm_display_value", JStr(<<"t", "r", "u", "e">>))>>)]

Post(table, payload) ==
    [method |-> "POST", endpoint |-> <<"api/now/table/", table>>, payload |-> payload]

(* ------------------------- tool invocations --------------------------- *)

\* What a tool coroutine has given its caller: nothing yet, a str, or an
\* exception that propagated out of it.
NoRet == [t |-> "none", v |-> <<>>]
RetStr(s) == [t |-> "str", v |-> s]
RetExc(e) == [t |-> "exc", v |-> <<e>>]

\* The locals a composite tool keeps across its awaits.
Frame0 == [stage |-> "parent", name |-> <<>>, sys_id |-> None,
           set_msgs |-> <<>>, var_msgs |-> <<>>]

\* A coroutine runs from one await to the next: it ends, or it issues its
\* next request and suspends.
Done(r, f) == [ret |-> r, frame |-> f, req |-> <<>>]
Await(q, f) == [ret |-> NoRet, frame |-> f, req |-> <<q>>]

True == <<"t", "r", "u", "e">>
ArgName == <<"n", "m">>
ArgTable == <<"t", "b">>
ArgScript == <<"j", "s">>

\* `except ValueError` matches ValueError and its subclasses.
IsValueError(exc) == exc \in {"ValueError", "JSONDecodeError"}

\* `except ValueError as e: return f"<prefix>{e}"` around an awaited helper
\* call that raised: any other exception leaves the tool.
ExceptValueError(prefix, h) ==
    IF IsValueError(h.exc) THEN RetStr(prefix \o h.msg) ELSE RetExc(h.exc)

\* `x or y`
Or(x, y) == IF Truthy(x) THEN x ELSE y

\* fields appended under `if value:`
IfSet(key, val) == IF Truthy(val) THEN <<F(key, val)>> ELSE <<>>

(* create_incident *)

incident_args ==
    << [short_description |-> JStr(<<"s", "h">>), description |-> None,
        caller_id |-> None, urgency |-> JStr(<<"3">>), impact |-> JStr(<<"3">>)],
       [short_description |-> JStr(<<"s", "h">>), description |-> JStr(<<"l", "g">>),
        caller_id |-> JStr(<<"c">>), urgency |-> JStr(<<"1">>), impact |-> JStr(<<"2">>)] >>

incident_payload(a) ==
    JObj(<<F("short_description", a.short_description),
           F("description", Or(a.description, a.short_description)),
           F("urgency", a.urgency),
           F("impact", a.impact)>> \o IfSet("caller_id", a.caller_id))

\* create_incident after its await: h is how the helper ended.
create_incident_result(a, h) ==
    IF ~h.ok THEN ExceptValueError(<<"Error creating incident: ">>, h)
    ELSE IF ~HasGet(h.val) THEN RetExc("AttributeError")
    ELSE RetStr(<<"Successfully created incident ">>
                    \o PyStr(DictGet(h.val, "number", JStr(<<"UNKNOWN">>)))
                    \o <<" (Sys ID: ">>
                    \o PyStr(DictGet(h.val, "sys_id", JStr(<<"UNKNOWN">>)))
                    \o <<").">>)

(* create_kb_article *)

kb_article_args ==
    << [short_description |-> JStr(<<"s", "h">>), article_body |-> JStr(<<"k", "b">>),
        kb_knowledge_base |-> None, workflow_state |-> JStr(<<"draft">>)],
       [short_description |-> JStr(<<"s", "h">>), article_body |-> JStr(<<"k", "b">>),
        kb_knowledge_base |-> JStr(<<"K">>), workflow_state |-> JStr(<<"draft">>)] >>

kb_article_payload(a) ==
    JObj(<<F("short_description", a.short_description),
           F("text", a.article_body),
           F("workflow_state", a.workflow_state),
           F("article_type", JStr(<<"text">>))>>
             \o IfSet("kb_knowledge_base", a.kb_knowledge_base))

\* create_kb_article_result reading the key "sysid" for the Sys ID.
create_kb_article_result_wrong_key(a, h) ==
    IF ~h.ok THEN ExceptValueError(<<"Error creating KB article: ">>, h)
    ELSE IF ~HasGet(h.val) THEN RetExc("AttributeError")
    ELSE RetStr(<<"Successfully created KB article ">>
                    \o PyStr(DictGet(h.val, "number", JStr(<<"UNKNOWN">>)))
                    \o <<" (Sys ID: ">>
                    \o PyStr(DictGet(h.val, "sysid", JStr(<<"UNKNOWN">>)))
                    \o <<").">>)

create_kb_article_result(a, h) ==
    IF ~h.ok THEN ExceptValueError(<<"Error creating KB article: ">>, h)
    ELSE IF ~HasGet(h.val) THEN RetExc("AttributeError")
    ELSE RetStr(<<"Successfully created KB article ">>
                    \o PyStr(DictGet(h.val, "number", JStr(<<"UNKNOWN">>)))
                    \o <<" (Sys ID: ">>
                    \o PyStr(DictGet(h.val, "sys_id", JStr(<<"UNKNOWN">>)))
                    \o <<").">>)

(* create_client_script *)

OnChange == <<"o", "n", "C", "h", "a", "n", "g", "e">>
OnLoad == <<"o", "n", "L", "o", "a", "d">>

client_script_args ==
    << [name |-> JStr(ArgName), table |-> JStr(ArgTable), script |-> JStr(ArgScript),
        ui_type |-> JStr(<<"all">>), script_type |-> JStr(OnChange),
        field_name |-> None, is_active |-> JBool(TRUE)],
       [name |-> JStr(ArgName), table |-> JStr(ArgTable), script |-> JStr(ArgScript),
        ui_type |-> JStr(<<"all">>), script_type |-> JStr(OnChange),
        field_name |-> JStr(<<>>), is_active |-> JBool(TRUE)],
       [name |-> JStr(ArgName), table |-> JStr(ArgTable), script |-> JStr(ArgScript),
        ui_type |-> JStr(<<"all">>), script_type |-> JStr(OnChange),
        field_name |-> JStr(<<"f">>), is_active |-> JBool(FALSE)],
       [name |-> JStr(ArgName), table |-> JStr(ArgTable), script |-> JStr(ArgScript),
        ui_type |-> JStr(<<"all">>), script_type |-> JStr(OnLoad),
        field_name |-> None, is_active |-> JBool(TRUE)],
       [name |-> JStr(ArgName), table |-> JStr(ArgTable), script |-> JStr(ArgScript),
        ui_type |-> JStr(<<"all">>), script_type |-> JStr(OnLoad),
        field_name |-> JStr(<<"f">>), is_active |-> JBool(TRUE)] >>

\* client_script_invalid testing `field_name is None` in place of falsiness.
client_script_invalid_only_none(a) == a.script_type.v = OnChange /\ a.field_name.t = "null"

\* the cross-field check that precedes any request
client_script_invalid(a) == a.script_type.v = OnChange /\ ~Truthy(a.field_name)

client_script_payload(a) ==
    JObj(<<F("name", a.name), F("table", a.table), F("script", a.script),
           F("ui_type", a.ui_type), F("type", a.script_type),
           F("active", JStr(Lower(PyStr(a.is_active))))>>
             \o IfSet("field_name", a.field_name))

create_client_script_result(a, h) ==
    IF ~h.ok THEN ExceptValueError(<<"Error creating Client Script: ">>, h)
    ELSE IF ~HasGet(h.val) THEN RetExc("AttributeError")
    ELSE RetStr(<<"Successfully created Client Script '">>
                    \o PyStr(DictGet(h.val, "name", a.name))
                    \o <<"' (Sys ID: ">>
                    \o PyStr(DictGet(h.val, "sys_id", JStr(<<"UNKNOWN">>)))
                    \o <<").">>)

(* create_business_rule *)

business_rule_args ==
    << [name |-> JStr(ArgName), table |-> JStr(ArgTable), script |-> JStr(ArgScript),
        when |-> JStr(<<"before">>), order |-> JInt(100),
        action_insert |-> JBool(TRUE), action_update |-> JBool(TRUE),
        action_delete |-> JBool(FALSE), action_query |-> JBool(FALSE),
        is_active |-> JBool(TRUE)] >>

business_rule_payload(a) ==
    JObj(<<F("name", a.name), F("table", a.table), F("script", a.script),
           F("when", a.when), F("order", a.order),
           F("action_insert", JStr(Lower(PyStr(a.action_insert)))),
           F("action_update", JStr(Lower(PyStr(a.action_update)))),
           F("action_delete", JStr(Lower(PyStr(a.action_delete)))),
           F("action_query", JStr(Lower(PyStr(a.action_query)))),
           F("active", JStr(Lower(PyStr(a.is_active)))),
           F("collection", a.table)>>)

create_business_rule_result(a, h) ==
    IF ~h.ok THEN ExceptValueError(<<"Error creating Business Rule: ">>, h)
    ELSE IF ~HasGet(h.val) THEN RetExc("AttributeError")
    ELSE RetStr(<<"Successfully created Business Rule '">>
                    \o PyStr(DictGet(h.val, "name", a.name))
                    \o <<"' (Sys ID: ">>
                    \o PyStr(DictGet(h.val, "sys_id", JStr(<<"UNKNOWN">>)))
                    \o <<").">>)

(* create_sla_definition *)

\* "%02d" % n
Pad2(n) == IF n < 10 THEN <<"0">> \o NatText(n) ELSE NatText(n)

\* str(timedelta(seconds=d)): the timedelta is normalised to whole days
\* (floor) and 0 <= seconds < 86400, and printed "[D day[s], ]H:MM:SS".
TimedeltaStr(d) ==
    LET days == d \div 86400
        secs == d % 86400
        hh == secs \div 3600
        mm == (secs % 3600) \div 60
        ss == secs % 60
        clock == IntText(hh) \o <<":">> \o Pad2(mm) \o <<":">> \o Pad2(ss)
        absd == IF days < 0 THEN 0 - days ELSE days
    IN  IF days # 0
        THEN IntText(days) \o <<" ", "d", "a", "y">>
                 \o (IF absd # 1 THEN <<"s">> ELSE <<>>) \o <<",", " ">> \o clock
        ELSE clock

\* s.split('.')[0]: the text before the first "."
SplitDot0(s) ==
    IF \E j \in 1..Len(s) : s[j] = "."
    THEN SubSeq(s, 1, (CHOOSE j \in 1..Len(s) :
                          s[j] = "." /\ \A k \in 1..(j - 1) : s[k] # ".") - 1)
    ELSE s

RECURSIVE Zeros(_)
Zeros(n) == IF n <= 0 THEN <<>> ELSE <<"0">> \o Zeros(n - 1)

\* s.zfill(width): zeros on the left, after a leading sign
Zfill(s, width) ==
    IF Len(s) >= width THEN s
    ELSE IF Len(s) > 0 /\ s[1] \in {"+", "-"}
    THEN <<s[1]>> \o Zeros(width - Len(s)) \o Tail(s)
    ELSE Zeros(width - Len(s)) \o s

glide_duration(d) == <<"1970-01-01 ">> \o Zfill(SplitDot0(TimedeltaStr(d)), 8)

Durations == {0, 59, 3600, 28800, 86399, 86400, 90061, 0 - 1}

sla_definition_args ==
    { [name |-> JStr(ArgName), table |-> JStr(ArgTable), duration_seconds |-> d,
       start_condition |-> IF d = 28800 THEN JStr(<<"a", "=", "1">>) ELSE None,
       stop_condition |-> None, pause_condition |-> None] : d \in Durations }

sla_definition_payload(a) ==
    JObj(<<F("name", a.name), F("target_table", a.table),
           F("duration", JStr(glide_duration(a.duration_seconds))),
           F("duration_type", JStr(<<"glide_duration">>)),
           F("type", JStr(<<"SLA">>)), F("active", JStr(True))>>
             \o IfSet("start_condition", a.start_condition)
             \o IfSet("stop_condition", a.stop_condition)
             \o IfSet("pause_condition", a.pause_condition))

create_sla_definition_result(a, h) ==
    IF ~h.ok THEN ExceptValueError(<<"Error creating SLA Definition: ">>, h)
    ELSE IF ~HasGet(h.val) THEN RetExc("AttributeError")
    ELSE RetStr(<<"Successfully created SLA Definition '">>
                    \o PyStr(DictGet(h.val, "name", a.name))
                    \o <<"' (Sys ID: ">>
                    \o PyStr(DictGet(h.val, "sys_id", JStr(<<"UNKNOWN">>)))
                    \o <<"). Conditions should be verified in ServiceNow UI.">>)

(* get_incidents, get_change_requests, get_users *)

Limits == {0 - 1, 0, 5, 100, 101, 500}

\* ClampLimit with the comparison turned round.
ClampLimit_floor(limit) == IF limit < 100 THEN 100 ELSE limit

\* `if limit > 100: limit = 100`
ClampLimit(limit) == IF limit > 100 THEN 100 ELSE limit

\* `"result" in x`: a key of a dict, an element of a list, a substring of a
\* str; anything else is not iterable (TypeError).
InDefined(x) == x.t \in {"obj", "arr", "str"}
In(key, x) ==
    CASE x.t = "obj" -> HasKey(x, key)
      [] x.t = "arr" -> \E j \in 1..Len(x.v) : x.v[j].t = "str" /\ x.v[j].v = <<key>>
      [] x.t = "str" -> Contains(x.v, <<key>>)
      [] OTHER -> FALSE

\* One bullet line (the bullet character is written "* " here).
incident_line(r) ==
    <<"* ">> \o PyStr(DictGet(r, "number", JStr(<<"N/A">>))) \o <<": ">>
        \o PyStr(DictGet(r, "short_description", JStr(<<"No description">>)))
        \o <<" (State: ">> \o PyStr(DictGet(r, "state", JStr(<<"N/A">>)))
        \o <<", Priority: ">> \o PyStr(DictGet(r, "priority", JStr(<<"N/A">>))) \o <<")">>

change_line(r) ==
    <<"* ">> \o PyStr(DictGet(r, "number", JStr(<<"N/A">>))) \o <<": ">>
        \o PyStr(DictGet(r, "short_description", JStr(<<"No description">>)))
        \o <<" (State: ">> \o PyStr(DictGet(r, "state", JStr(<<"N/A">>)))
        \o <<", Risk: ">> \o PyStr(DictGet(r, "risk", JStr(<<"N/A">>))) \o <<")">>

user_line(r) ==
    <<"* ">> \o PyStr(DictGet(r, "user_name", JStr(<<"N/A">>))) \o <<": ">>
        \o PyStr(DictGet(r, "name", JStr(<<"No name">>)))
        \o <<" (Email: ">> \o PyStr(DictGet(r, "email", JStr(<<"N/A">>)))
        \o <<", Active: ">> \o PyStr(DictGet(r, "active", JStr(<<"N/A">>))) \o <<")">>

\* The bullet line of the tool that lists `what`.
Line(what, r) ==
    CASE what = "incidents" -> incident_line(r)
      [] what = "change requests" -> change_line(r)
      [] OTHER -> user_line(r)

\* f"Retrieved {len(items)} <what>:\n" + "\n".join(lines)
Listing(what, lines) ==
    <<"Retrieved ">> \o IntText(Len(lines)) \o <<" ", what, ":", "\n">>
        \o Join(lines, <<"\n">>)

\* The body the three listing tools share after `result = await sn_get(...)`.
listing_result(what, h) ==
    IF ~h.ok THEN ExceptValueError(<<"Error retrieving ", what, ": ">>, h)
    ELSE LET result == h.val
         IN  IF ~Truthy(result)
             THEN RetStr(<<"No ", what, " found or error retrieving ", what, ".">>)
             ELSE IF ~InDefined(result) THEN RetExc("TypeError")
             ELSE IF ~In("result", result)
             THEN RetStr(<<"No ", what, " found or error retrieving ", what, ".">>)
             ELSE IF result.t # "obj" THEN RetExc("TypeError")
             ELSE LET items == DictGet(result, "result", None)
                  IN  IF ~Truthy(items) THEN RetStr(<<"No ", what, " found.">>)
                      ELSE IF items.t \in {"int", "bool"} THEN RetExc("TypeError")
                      ELSE IF items.t # "arr" \/ \E j \in 1..Len(items.v) : ~HasGet(items.v[j])
                      THEN RetExc("AttributeError")
                      ELSE RetStr(Listing(what, [j \in 1..Len(items.v) |-> Line(what, items.v[j])]))

get_incidents_result(h) == listing_result("incidents", h)
get_change_requests_result(h) == listing_result("change requests", h)
get_users_result(h) == listing_result("users", h)

(* create_record_producer, create_variable_set *)

\* The most dependent items (variable sets plus variables) one call asks for.
MaxItems == 2

TypeBoolean == <<"b", "o", "o", "l", "e", "a", "n">>
TypeReference == <<"r", "e", "f", "e", "r", "e", "n", "c", "e">>
TypeString == <<"s", "t", "r", "i", "n", "g">>

\* A var_type_map that knows the boolean code only.
var_type_map_only_boolean(tn) == IF tn = TypeBoolean THEN <<"6">> ELSE <<"2">>

\* var_type_map.get(name, "2")
var_type_map(tn) ==
    CASE tn = TypeString -> <<"2">>
      [] tn = <<"i", "n", "t", "e", "g", "e", "r">> -> <<"9">>
      [] tn = TypeBoolean -> <<"6">>
      [] tn = TypeReference -> <<"8">>
      [] tn = <<"c", "h", "o", "i", "c", "e">> -> <<"3">>
      [] tn = <<"t", "e", "x", "t">> -> <<"1">>
      [] tn = <<"d", "a", "t", "e">> -> <<"5">>
      [] tn = <<"d", "a", "t", "e", "t", "i", "m", "e">> -> <<"4">>
      [] tn = <<"c", "u", "r", "r", "e", "n", "c", "y">> -> <<"1", "0">>
      [] tn = <<"p", "r", "i", "c", "e">> -> <<"7">>
      [] OTHER -> <<"2">>

\* The type names a caller may give, in the order of var_type_map.
TypeNames ==
    << TypeString, <<"i", "n", "t", "e", "g", "e", "r">>, TypeBoolean, TypeReference,
       <<"c", "h", "o", "i", "c", "e">>, <<"t", "e", "x", "t">>, <<"d", "a", "t", "e">>,
       <<"d", "a", "t", "e", "t", "i", "m", "e">>,
       <<"c", "u", "r", "r", "e", "n", "c", "y">>, <<"p", "r", "i", "c", "e">> >>

\* The n-th variable definition a caller passes: a named boolean in mixed
\* case, a definition with only an unrecognised type, a reference with a
\* default, a definition without a type, then one per type name.
VarDef(n) ==
    CASE n = 1 ->
           JObj(<<F("name", JStr(<<"v">> \o IntText(n))), F("label", JStr(<<"L", "b">>)),
                  F("type", JStr(<<"B", "o", "o", "l", "e", "a", "n">>)),
                  F("mandatory", JBool(TRUE))>>)
      [] n = 2 -> JObj(<<F("type", JStr(<<"u", "n", "k">>))>>)
      [] n = 3 ->
           JObj(<<F("name", JStr(<<"v">> \o IntText(n))), F("type", JStr(TypeReference)),
                  F("reference_table", JStr(ArgTable)), F("default_value", JInt(5))>>)
      [] n = 4 -> JObj(<<F("name", JStr(<<"v">> \o IntText(n)))>>)
      [] OTHER ->
           JObj(<<F("name", JStr(<<"v">> \o IntText(n))), F("type", JStr(TypeNames[n - 4]))>>)

\* How many variable definitions there are to pass.
VarDefCount == 4 + Len(TypeNames)

\* Where a caller's list of definitions may start: the longest lists, taken
\* together, pass every definition.
VarStarts == { k \in 1..VarDefCount : (k - 1) % MaxItems = 0 }

SetId(n) == JStr(<<"s">> \o IntText(n))

\* The lists a caller may pass: None (n < 0), or the first n items.
\* (for variables: the n definitions from the k-th on, cyclically).
VarList(n, k) ==
    IF n < 0 THEN None
    ELSE JArr([j \in 1..n |-> VarDef(((k + j - 2) % VarDefCount) + 1)])
SetList(n) == IF n < 0 THEN None ELSE JArr([j \in 1..n |-> SetId(j)])
Requested(n) == IF n < 0 THEN 0 ELSE n

\* The items of `xs` that the guard `xs and len(xs) > 0` lets the loop visit.
Items(xs) == IF Truthy(xs) /\ Len(xs.v) > 0 THEN xs.v ELSE <<>>

\* var_def.get('name', f'variable_{idx}'); idx counts from 0
var_name(var_def, idx) ==
    PyStr(DictGet(var_def, "name", JStr(<<"variable_">> \o IntText(idx))))

\* The var_payload both composite tools build for the idx-th definition.
var_payload(parent_key, sys_id, var_def, idx) ==
    JObj(<<F(parent_key, sys_id),
           F("name", DictGet(var_def, "name", JStr(<<"variable_">> \o IntText(idx)))),
           F("question_text",
             DictGet(var_def, "label",
                     DictGet(var_def, "name", JStr(<<"Variable ">> \o IntText(idx))))),
           F("type", JStr(var_type_map(Lower(DictGet(var_def, "type", JStr(TypeString)).v)))),
           F("mandatory", JStr(Lower(PyStr(DictGet(var_def, "mandatory", JBool(FALSE)))))),
           F("order", JInt((idx + 1) * 100)),
           F("help_text", DictGet(var_def, "help_text", JStr(<<>>))),
           F("description", DictGet(var_def, "description", JStr(<<>>)))>>
         \o (IF HasKey(var_def, "default_value")
             THEN <<F("default_value", JStr(PyStr(DictGet(var_def, "default_value", None))))>>
             ELSE <<>>)
         \o (IF Lower(DictGet(var_def, "type", JStr(<<>>)).v) = TypeReference
                /\ HasKey(var_def, "reference_table")
             THEN <<F("reference", DictGet(var_def, "reference_table", None))>>
             ELSE <<>>))

\* The message one variable's creation call leaves in variable_messages;
\* a result without `.get` raises AttributeError out of the loop.
var_message(var_def, idx, h) ==
    IF ~h.ok /\ ~IsValueError(h.exc) THEN h
    ELSE IF ~h.ok
    THEN Return(<<"Error adding variable '">> \o var_name(var_def, idx) \o <<"': ">> \o h.msg)
    ELSE IF ~HasGet(h.val) THEN Raise("AttributeError", <<>>)
    ELSE IF Truthy(DictGet(h.val, "sys_id", None))
    THEN Return(<<"Added variable '">> \o var_name(var_def, idx) \o <<"'">>)
    ELSE Return(<<"Failed to add variable '">> \o var_name(var_def, idx) \o <<"'">>)

\* The message one variable-set attachment leaves in variable_set_messages.
set_message(set_id, h) ==
    IF ~h.ok /\ ~IsValueError(h.exc) THEN h
    ELSE IF ~h.ok
    THEN Return(<<"Error adding variable set (ID: ">> \o PyStr(set_id) \o <<"): ">> \o h.msg)
    ELSE IF ~HasGet(h.val) THEN Raise("AttributeError", <<>>)
    ELSE IF Truthy(DictGet(h.val, "sys_id", None))
    THEN Return(<<"Added variable set (ID: ">> \o PyStr(set_id) \o <<")">>)
    ELSE Return(<<"Failed to add variable set (ID: ">> \o PyStr(set_id) \o <<")">>)

\* `if not producer_sys_id:` / `if not set_sys_id:`
no_sys_id(sys_id) == ~Truthy(sys_id)

record_producer_args ==
    { [name |-> JStr(ArgName), table_name |-> JStr(ArgTable),
       short_description |-> None, category_sys_id |-> None,
       script |-> IF ns < 0 THEN JStr(ArgScript) ELSE None,
       variables |-> VarList(nv, k),
       variable_set_ids |-> SetList(ns)] :
      <<ns, nv, k>> \in { c \in ((0 - 1)..MaxItems) \X ((0 - 1)..MaxItems)
                                  \X VarStarts :
                             Requested(c[1]) + Requested(c[2]) <= MaxItems } }

record_producer_payload(a) ==
    JObj(<<F("name", a.name), F("table_name", a.table_name),
           F("short_description", Or(a.short_description, a.name)),
           F("active", JStr(True)),
           F("sys_class_name", JStr(<<"sc_cat_item_producer">>))>>
             \o IfSet("category", a.category_sys_id)
             \o IfSet("script", a.script))

\* The final message with the note appended whenever no variable message
\* exists, variable sets or not.
record_producer_message_note_without_variables(a, f) ==
    <<"Successfully created Record Producer '">> \o f.name \o <<"' (Sys ID: ">>
        \o PyStr(f.sys_id) \o <<").">>
        \o (IF Len(f.set_msgs) > 0
            THEN <<"\n", "Variable Sets: ">> \o Join(f.set_msgs, <<"; ">>) ELSE <<>>)
        \o (IF Len(f.var_msgs) > 0
            THEN <<"\n", "Variables: ">> \o Join(f.var_msgs, <<"; ">>)
            ELSE <<" No variables were added.">>)

\* The message create_record_producer builds once its loops are over.
record_producer_message(a, f) ==
    <<"Successfully created Record Producer '">> \o f.name \o <<"' (Sys ID: ">>
        \o PyStr(f.sys_id) \o <<").">>
        \o (IF Len(f.set_msgs) > 0
            THEN <<"\n", "Variable Sets: ">> \o Join(f.set_msgs, <<"; ">>) ELSE <<>>)
        \o (IF Len(f.var_msgs) > 0
            THEN <<"\n", "Variables: ">> \o Join(f.var_msgs, <<"; ">>)
            ELSE IF Len(f.set_msgs) = 0 /\ ~Truthy(a.variables)
            THEN <<" No variables were added.">> ELSE <<>>)

\* record_producer_next with the variables' loop ahead of the variable
\* sets' loop.
record_producer_next_variables_first(a, f) ==
    LET sets == Items(a.variable_set_ids)
        vs == Items(a.variables)
        si == Len(f.set_msgs)
        vi == Len(f.var_msgs)
    IN  IF vi < Len(vs)
        THEN Await(Post("item_option_new", var_payload("cat_item", f.sys_id, vs[vi + 1], vi)),
                   [f EXCEPT !.stage = "vars"])
        ELSE IF si < Len(sets)
        THEN Await(Post("io_set_item",
                        JObj(<<F("sc_cat_item", f.sys_id), F("variable_set", sets[si + 1])>>)),
                   [f EXCEPT !.stage = "sets"])
        ELSE Done(RetStr(record_producer_message(a, f)), f)

\* create_record_producer from the end of one dependent call on: the next
\* variable-set attachment, else the next variable, else the final message.
record_producer_next(a, f) ==
    LET sets == Items(a.variable_set_ids)
        vs == Items(a.variables)
        si == Len(f.set_msgs)
        vi == Len(f.var_msgs)
    IN  IF si < Len(sets)
        THEN Await(Post("io_set_item",
                        JObj(<<F("sc_cat_item", f.sys_id), F("variable_set", sets[si + 1])>>)),
                   [f EXCEPT !.stage = "sets"])
        ELSE IF vi < Len(vs)
        THEN Await(Post("item_option_new", var_payload("cat_item", f.sys_id, vs[vi + 1], vi)),
                   [f EXCEPT !.stage = "vars"])
        ELSE Done(RetStr(record_producer_message(a, f)), f)

\* create_record_producer resumed after an await with the helper's outcome h.
create_record_producer_result(a, f, h) ==
    IF f.stage = "parent"
    THEN IF ~h.ok THEN Done(ExceptValueError(<<"Error creating Record Producer: ">>, h), f)
         ELSE IF ~HasGet(h.val) THEN Done(RetExc("AttributeError"), f)
         ELSE LET producer_name == DictGet(h.val, "name", a.name)
                  producer_sys_id == DictGet(h.val, "sys_id", JStr(<<>>))
              IN  IF no_sys_id(producer_sys_id)
                  THEN Done(RetStr(<<"Error creating Record Producer: ",
                                     "No sys_id returned from ServiceNow.">>), f)
                  ELSE record_producer_next(
                           a, [f EXCEPT !.name = PyStr(producer_name),
                                        !.sys_id = producer_sys_id])
    ELSE IF f.stage = "sets"
    THEN LET m == set_message(Items(a.variable_set_ids)[Len(f.set_msgs) + 1], h)
         IN  IF ~m.ok THEN Done(RetExc(m.exc), f)
             ELSE record_producer_next(a, [f EXCEPT !.set_msgs = Append(@, m.val)])
    ELSE LET m == var_message(Items(a.variables)[Len(f.var_msgs) + 1], Len(f.var_msgs), h)
         IN  IF ~m.ok THEN Done(RetExc(m.exc), f)
             ELSE record_producer_next(a, [f EXCEPT !.var_msgs = Append(@, m.val)])

variable_set_args ==
    { [name |-> JStr(ArgName),
       description |-> IF nv < 0 THEN JStr(<<"d", "s">>) ELSE None,
       variables |-> VarList(nv, k)] :
      <<nv, k>> \in ((0 - 1)..MaxItems) \X VarStarts }

variable_set_payload(a) ==
    JObj(<<F("name", a.name), F("description", Or(a.description, a.name)),
           F("active", JStr(True))>>)

variable_set_message(a, f) ==
    <<"Successfully created Variable Set '">> \o f.name \o <<"' (Sys ID: ">>
        \o PyStr(f.sys_id) \o <<").">>
        \o (IF Len(f.var_msgs) > 0
            THEN <<"\n", "Variables: ">> \o Join(f.var_msgs, <<"; ">>)
            ELSE <<" No variables were added.">>)

variable_set_next(a, f) ==
    LET vs == Items(a.variables)
        vi == Len(f.var_msgs)
    IN  IF vi < Len(vs)
        THEN Await(Post("io_set_variable",
                        var_payload("variable_set", f.sys_id, vs[vi + 1], vi)),
                   [f EXCEPT !.stage = "vars"])
        ELSE Done(RetStr(variable_set_message(a, f)), f)

\* create_variable_set sending a variable's request again when it failed.
create_variable_set_result_retry(a, f, h) ==
    IF f.stage = "parent"
    THEN IF ~h.ok THEN Done(ExceptValueError(<<"Error creating Variable Set: ">>, h), f)
         ELSE IF ~HasGet(h.val) THEN Done(RetExc("AttributeError"), f)
         ELSE LET set_name == DictGet(h.val, "name", a.name)
                  set_sys_id == DictGet(h.val, "sys_id", JStr(<<>>))
              IN  IF no_sys_id(set_sys_id)
                  THEN Done(RetStr(<<"Error creating Variable Set: ",
                                     "No sys_id returned from ServiceNow.">>), f)
                  ELSE variable_set_next(
                           a, [f EXCEPT !.name = PyStr(set_name), !.sys_id = set_sys_id])
    ELSE IF ~h.ok
    THEN variable_set_next(a, f)
    ELSE LET m == var_message(Items(a.variables)[Len(f.var_msgs) + 1], Len(f.var_msgs), h)
         IN  IF ~m.ok THEN Done(RetExc(m.exc), f)
             ELSE variable_set_next(a, [f EXCEPT !.var_msgs = Append(@, m.val)])

\* create_variable_set resumed after an await with the helper's outcome h.
create_variable_set_result(a, f, h) ==
    IF f.stage = "parent"
    THEN IF ~h.ok THEN Done(ExceptValueError(<<"Error creating Variable Set: ">>, h), f)
         ELSE IF ~HasGet(h.val) THEN Done(RetExc("AttributeError"), f)
         ELSE LET set_name == DictGet(h.val, "name", a.name)
                  set_sys_id == DictGet(h.val, "sys_id", JStr(<<>>))
              IN  IF no_sys_id(set_sys_id)
                  THEN Done(RetStr(<<"Error creating Variable Set: ",
                                     "No sys_id returned from ServiceNow.">>), f)
                  ELSE variable_set_next(
                           a, [f EXCEPT !.name = PyStr(set_name), !.sys_id = set_sys_id])
    ELSE LET m == var_message(Items(a.variables)[Len(f.var_msgs) + 1], Len(f.var_msgs), h)
         IN  IF ~m.ok THEN Done(RetExc(m.exc), f)
             ELSE variable_set_next(a, [f EXCEPT !.var_msgs = Append(@, m.val)])

(* ------------------------- the state machine -------------------------- *)

\* The tool invocations the host makes.
Invocations == {1}

\* The invocations the host can have running at a time: a second one may be
\* started while the first is suspended at an await.
Hosted == {1, 2}

CreationTools == {"create_incident", "create_kb_article", "create_client_script",
                  "create_business_rule", "create_sla_definition",
                  "create_record_producer", "create_variable_set"}
CompositeTools == {"create_record_producer", "create_variable_set"}
ListingTools == {"get_incidents", "get_change_requests", "get_users"}

Init ==
    /\ pc = [i \in Hosted |-> "idle"]
    /\ tool = [i \in Hosted |-> "none"]
    /\ args = [i \in Hosted |-> <<>>]
    /\ sent = [i \in Hosted |-> <<>>]
    /\ recv = [i \in Hosted |-> <<>>]
    /\ frame = [i \in Hosted |-> Frame0]
    /\ ret = [i \in Hosted |-> NoRet]

\* Each tool action is the host calling the tool: the coroutine runs up to
\* its first await, where its first request is on the wire (or, for a
\* failed validation, to its return).

create_incident(i) ==
    /\ pc[i] = "idle"
    /\ \E k \in 1..Len(incident_args) :
        LET a == incident_args[k] IN
        /\ args' = [args EXCEPT ![i] = a]
        /\ sent' = [sent EXCEPT ![i] = <<Post("incident", incident_payload(a))>>]
    /\ tool' = [tool EXCEPT ![i] = "create_incident"]
    /\ pc' = [pc EXCEPT ![i] = "awaiting"]
    /\ UNCHANGED <<recv, frame, ret>>

create_kb_article(i) ==
    /\ pc[i] = "idle"
    /\ \E k \in 1..Len(kb_article_args) :
        LET a == kb_article_args[k] IN
        /\ args' = [args EXCEPT ![i] = a]
        /\ sent' = [sent EXCEPT ![i] = <<Post("kb_knowledge", kb_article_payload(a))>>]
    /\ tool' = [tool EXCEPT ![i] = "create_kb_article"]
    /\ pc' = [pc EXCEPT ![i] = "awaiting"]
    /\ UNCHANGED <<recv, frame, ret>>

create_client_script(i) ==
    /\ pc[i] = "idle"
    /\ \E k \in 1..Len(client_script_args) :
        LET a == client_script_args[k] IN
        /\ args' = [args EXCEPT ![i] = a]
        /\ IF client_script_invalid(a)
           THEN /\ ret' = [ret EXCEPT ![i] =
                     RetStr(<<"Error: 'field_name' is required when script_type is 'onChange'.">>)]
                /\ pc' = [pc EXCEPT ![i] = "done"]
                /\ UNCHANGED sent
           ELSE /\ sent' = [sent EXCEPT ![i] =
                     <<Post("sys_script_client", client_script_payload(a))>>]
                /\ pc' = [pc EXCEPT ![i] = "awaiting"]
                /\ UNCHANGED ret
    /\ tool' = [tool EXCEPT ![i] = "create_client_script"]
    /\ UNCHANGED <<recv, frame>>

create_business_rule(i) ==
    /\ pc[i] = "idle"
    /\ \E k \in 1..Len(business_rule_args) :
        LET a == business_rule_args[k] IN
        /\ args' = [args EXCEPT ![i] = a]
        /\ sent' = [sent EXCEPT ![i] = <<Post("sys_script", business_rule_payload(a))>>]
    /\ tool' = [tool EXCEPT ![i] = "create_business_rule"]
    /\ pc' = [pc EXCEPT ![i] = "awaiting"]
    /\ UNCHANGED <<recv, frame, ret>>

create_sla_definition(i) ==
    /\ pc[i] = "idle"
    /\ \E a \in sla_definition_args :
        /\ args' = [args EXCEPT ![i] = a]
        /\ sent' = [sent EXCEPT ![i] = <<Post("contract_sla", sla_definition_payload(a))>>]
    /\ tool' = [tool EXCEPT ![i] = "create_sla_definition"]
    /\ pc' = [pc EXCEPT ![i] = "awaiting"]
    /\ UNCHANGED <<recv, frame, ret>>

create_record_producer(i) ==
    /\ pc[i] = "idle"
    /\ \E a \in record_producer_args :
        /\ args' = [args EXCEPT ![i] = a]
        /\ sent' = [sent EXCEPT ![i] = <<Post("sc_cat_item_producer", record_producer_payload(a))>>]
    /\ tool' = [tool EXCEPT ![i] = "create_record_producer"]
    /\ pc' = [pc EXCEPT ![i] = "awaiting"]
    /\ UNCHANGED <<recv, frame, ret>>

create_variable_set(i) ==
    /\ pc[i] = "idle"
    /\ \E a \in variable_set_args :
        /\ args' = [args EXCEPT ![i] = a]
        /\ sent' = [sent EXCEPT ![i] = <<Post("io_set", variable_set_payload(a))>>]
    /\ tool' = [tool EXCEPT ![i] = "create_variable_set"]
    /\ pc' = [pc EXCEPT ![i] = "awaiting"]
    /\ UNCHANGED <<recv, frame, ret>>

get_incidents(i) ==
    /\ pc[i] = "idle"
    /\ \E limit \in Limits :
        /\ args' = [args EXCEPT ![i] = [limit |-> limit]]
        /\ sent' = [sent EXCEPT ![i] = <<sn_get("incident", ClampLimit(limit))>>]
    /\ tool' = [tool EXCEPT ![i] = "get_incidents"]
    /\ pc' = [pc EXCEPT ![i] = "awaiting"]
    /\ UNCHANGED <<recv, frame, ret>>

get_change_requests(i) ==
    /\ pc[i] = "idle"
    /\ \E limit \in Limits :
        /\ args' = [args EXCEPT ![i] = [limit |-> limit]]
        /\ sent' = [sent EXCEPT ![i] = <<sn_get("change_request", ClampLimit(limit))>>]
    /\ tool' = [tool EXCEPT ![i] = "get_change_requests"]
    /\ pc' = [pc EXCEPT ![i] = "awaiting"]
    /\ UNCHANGED <<recv, frame, ret>>

get_users(i) ==
    /\ pc[i] = "idle"
    /\ \E limit \in Limits :
        /\ args' = [args EXCEPT ![i] = [limit |-> limit]]
        /\ sent' = [sent EXCEPT ![i] = <<sn_get("sys_user", ClampLimit(limit))>>]
    /\ tool' = [tool EXCEPT ![i] = "get_users"]
    /\ pc' = [pc EXCEPT ![i] = "awaiting"]
    /\ UNCHANGED <<recv, frame, ret>>

\* Tool t, suspended with locals f, resumed with the helper's outcome h.
Resume(t, a, f, h) ==
    CASE t = "create_incident" -> Done(create_incident_result(a, h), f)
      [] t = "create_kb_article" -> Done(create_kb_article_result(a, h), f)
      [] t = "create_client_script" -> Done(create_client_script_result(a, h), f)
      [] t = "create_business_rule" -> Done(create_business_rule_result(a, h), f)
      [] t = "create_sla_definition" -> Done(create_sla_definition_result(a, h), f)
      [] t = "create_record_producer" -> create_record_producer_result(a, f, h)
      [] t = "create_variable_set" -> create_variable_set_result(a, f, h)
      [] t = "get_incidents" -> Done(get_incidents_result(h), f)
      [] t = "get_change_requests" -> Done(get_change_requests_result(h), f)
      [] OTHER -> Done(get_users_result(h), f)

\* Reply resuming the coroutine with the locals of the first invocation,
\* as it would with locals kept in one place for all invocations.
Reply_shared_frame(i) ==
    /\ pc[i] = "awaiting"
    /\ \E k \in 1..Len(Responses) :
        LET r == Responses[k]
            q == sent[i][Len(sent[i])]
            st == Resume(tool[i], args[i], frame[1], _make_servicenow_request(q.method, r))
        IN  /\ recv' = [recv EXCEPT ![i] = Append(@, r)]
            /\ sent' = [sent EXCEPT ![i] = @ \o st.req]
            /\ frame' = [frame EXCEPT ![1] = st.frame]
            /\ ret' = [ret EXCEPT ![i] = st.ret]
            /\ pc' = [pc EXCEPT ![i] = IF Len(st.req) > 0 THEN "awaiting" ELSE "done"]
    /\ UNCHANGED <<tool, args>>

\* The HTTP call invocation i awaits completes with outcome Responses[k];
\* the helper normalises it and the coroutine runs on to its next await or
\* to its end.
Reply(i) ==
    /\ pc[i] = "awaiting"
    /\ \E k \in 1..Len(Responses) :
        LET r == Responses[k]
            q == sent[i][Len(sent[i])]
            st == Resume(tool[i], args[i], frame[i], _make_servicenow_request(q.method, r))
        IN  /\ recv' = [recv EXCEPT ![i] = Append(@, r)]
            /\ sent' = [sent EXCEPT ![i] = @ \o st.req]
            /\ frame' = [frame EXCEPT ![i] = st.frame]
            /\ ret' = [ret EXCEPT ![i] = st.ret]
            /\ pc' = [pc EXCEPT ![i] = IF Len(st.req) > 0 THEN "awaiting" ELSE "done"]
    /\ UNCHANGED <<tool, args>>

Next ==
    \E i \in Invocations :
        \/ create_incident(i)
        \/ create_kb_article(i)
        \/ create_client_script(i)
        \/ create_business_rule(i)
        \/ create_sla_definition(i)
        \/ create_record_producer(i)
        \/ create_variable_set(i)
        \/ get_incidents(i)
        \/ get_change_requests(i)
        \/ get_users(i)
        \/ Reply(i)

Spec == Init /\ [][Next]_vars

\* Tool t called with arguments a and run on its own up to its first await
\* (or, for a failed validation, to its return).
FirstStep(t, a) ==
    CASE t = "create_incident" -> Await(Post("incident", incident_payload(a)), Frame0)
      [] t = "create_kb_article" -> Await(Post("kb_knowledge", kb_article_payload(a)), Frame0)
      [] t = "create_client_script" ->
           IF client_script_invalid(a)
           THEN Done(RetStr(<<"Error: 'field_name' is required when script_type is 'onChange'.">>),
                     Frame0)
           ELSE Await(Post("sys_script_client", client_script_payload(a)), Frame0)
      [] t = "create_business_rule" -> Await(Post("sys_script", business_rule_payload(a)), Frame0)
      [] t = "create_sla_definition" ->
           Await(Post("contract_sla", sla_definition_payload(a)), Frame0)
      [] t = "create_record_producer" ->
           Await(Post("sc_cat_item_producer", record_producer_payload(a)), Frame0)
      [] t = "create_variable_set" -> Await(Post("io_set", variable_set_payload(a)), Frame0)
      [] t = "get_incidents" -> Await(sn_get("incident", ClampLimit(a.limit)), Frame0)
      [] t = "get_change_requests" ->
           Await(sn_get("change_request", ClampLimit(a.limit)), Frame0)
      [] OTHER -> Await(sn_get("sys_user", ClampLimit(a.limit)), Frame0)

\* Tool t called with arguments a and run on its own, its HTTP calls being
\* answered by rs in turn.
RECURSIVE Alone(_, _, _)
Alone(t, a, rs) ==
    IF rs = <<>> THEN FirstStep(t, a)
    ELSE LET before == Alone(t, a, SubSeq(rs, 1, Len(rs) - 1))
             q == before.req[Len(before.req)]
             st == Resume(t, a, before.frame, _make_servicenow_request(q.method, rs[Len(rs)]))
         IN  [ret |-> st.ret, frame |-> st.frame, req |-> before.req \o st.req]

(* Two invocations at a time.  The host starts a second tool while the first
   is suspended; the event loop resumes whichever invocation's response has
   arrived.  The calls and the answers are a few of those above. *)

ConcurrentResponses ==
    { r \in { Responses[k] : k \in 1..Len(Responses) } :
        \/ r.kind = "net"
        \/ r.status = 400
        \/ /\ r.status = 201 /\ r.body.t = "obj"
           /\ HasKey(r.body, "result")
                => /\ DictGet(r.body, "result", None).t = "obj"
                   /\ HasKey(DictGet(r.body, "result", None), "name") }

ConcurrentCall(i) ==
    \/ /\ create_record_producer(i)
       /\ args'[i].variable_set_ids = SetList(1)
       /\ args'[i].variables = VarList(1, 1)
    \/ /\ create_variable_set(i)
       /\ args'[i].variables = VarList(2, 1)
    \/ /\ get_users(i)
       /\ args'[i].limit = 500
    \/ create_client_script(i)

ConcurrentReply(i) ==
    /\ Reply(i)
    /\ recv'[i][Len(recv'[i])] \in ConcurrentResponses

ConcurrentNext == \E i \in Hosted : ConcurrentCall(i) \/ ConcurrentReply(i)

Concurrent == Init /\ [][ConcurrentNext]_vars

(* ----------------------------- the claims ----------------------------- *)

Ended(i) == pc[i] = "done"
ReturnedStr(i) == Ended(i) /\ ret[i].t = "str"
Propagated(i) == Ended(i) /\ ret[i].t = "exc"

\* The response to invocation i's first (for a composite tool: parent) request.
First(i) == recv[i][1]

\* r is an HTTP response with the given status whose JSON body has a
\* `result` of kind t ("obj": a mapping, "arr": a sequence).
HasResult(r, t) ==
    /\ r.kind = "http"
    /\ r.body.t = "obj"
    /\ HasKey(r.body, "result")
    /\ DictGet(r.body, "result", None).t = t
ResultOf(r) == DictGet(r.body, "result", None)

\* C1: every invocation of every tool ends by returning a string, whatever
\* the remote did (any status; `result` a mapping, a sequence or absent; a
\* body that is not JSON; a network failure): no exception propagates.
C1_AlwaysReturnsString ==
    \A i \in Invocations : Ended(i) => ret[i].t = "str"

\* The bullet lines and the count-prefixed listing a listing tool owes for
\* the records recs.
ExpectedListing(t, recs) ==
    CASE t = "get_incidents" ->
           Listing("incidents", [j \in 1..Len(recs) |-> incident_line(recs[j])])
      [] t = "get_change_requests" ->
           Listing("change requests", [j \in 1..Len(recs) |-> change_line(recs[j])])
      [] OTHER -> Listing("users", [j \in 1..Len(recs) |-> user_line(recs[j])])

NoneFoundMessages ==
    { <<"No ", w, " found or error retrieving ", w, ".">> :
        w \in {"incidents", "change requests", "users"} }
      \cup { <<"No ", w, " found.">> : w \in {"incidents", "change requests", "users"} }

\* C2: a listing tool whose GET is answered 200 with {"result": [r1..rn]},
\* n >= 1, returns "Retrieved n ..." followed by exactly n bullet lines in
\* remote order; a "none found" message is returned only when the record
\* sequence is empty or missing.
C2_ListingOfRecords ==
    \A i \in Invocations :
        (tool[i] \in ListingTools /\ Ended(i) /\ First(i).kind = "http"
            /\ First(i).status = 200 /\ HasResult(First(i), "arr"))
        => LET recs == ResultOf(First(i)).v
           IN  /\ Len(recs) >= 1 => ret[i] = RetStr(ExpectedListing(tool[i], recs))
               /\ (ret[i].t = "str" /\ ret[i].v \in NoneFoundMessages) => Len(recs) = 0

\* The (parent) creation POST was answered 201 with a `result` mapping that
\* holds `number` and `sys_id`.
Created201(i) ==
    /\ tool[i] \in CreationTools
    /\ Len(recv[i]) >= 1
    /\ First(i).kind = "http" /\ First(i).status = 201
    /\ HasResult(First(i), "obj")
    /\ HasKey(ResultOf(First(i)), "number")
    /\ HasKey(ResultOf(First(i)), "sys_id")

\* How many items of a list argument the caller asked for (None: none).
Asked(xs) == IF xs.t = "arr" THEN Len(xs.v) ELSE 0
AskedSets(i) ==
    IF tool[i] = "create_record_producer" THEN Asked(args[i].variable_set_ids) ELSE 0
AskedVars(i) == Asked(args[i].variables)

\* The name a creation tool reports: result.name, else its `name` argument.
ReportedName(i) == PyStr(DictGet(ResultOf(First(i)), "name", args[i].name))

\* C3 as stated: after a successful 201 whose `result` contains `number` and
\* `sys_id`, every creation tool's returned string contains both values.
C3_NumberAndSysId ==
    \A i \in Invocations :
        (Created201(i) /\ Ended(i))
        => /\ ret[i].t = "str"
           /\ Contains(ret[i].v, DictGet(ResultOf(First(i)), "number", None).v)
           /\ Contains(ret[i].v, DictGet(ResultOf(First(i)), "sys_id", None).v)

\* C3 amended: create_incident and create_kb_article return a string that
\* contains `number` and `sys_id`; create_client_script, create_business_rule
\* and create_sla_definition return a string that contains the record's name
\* (result.name, else the name argument) and `sys_id`; a string returned by
\* create_record_producer or create_variable_set after a non-empty `sys_id`
\* contains that name and the `sys_id`, and with no dependent item requested
\* the tool does return a string.
C3_IdentifiersReported ==
    \A i \in Invocations :
        (Created201(i) /\ Ended(i))
        => LET res == ResultOf(First(i))
               number == DictGet(res, "number", None).v
               sys_id == DictGet(res, "sys_id", None).v
           IN  /\ tool[i] \in {"create_incident", "create_kb_article"}
                    => /\ ret[i].t = "str"
                       /\ Contains(ret[i].v, number)
                       /\ Contains(ret[i].v, sys_id)
               /\ tool[i] \in {"create_client_script", "create_business_rule",
                               "create_sla_definition"}
                    => /\ ret[i].t = "str"
                       /\ Contains(ret[i].v, ReportedName(i))
                       /\ Contains(ret[i].v, sys_id)
               /\ (tool[i] \in CompositeTools /\ Len(sys_id) > 0 /\ ret[i].t = "str")
                    => /\ Contains(ret[i].v, ReportedName(i))
                       /\ Contains(ret[i].v, sys_id)
               /\ (tool[i] \in CompositeTools /\ Len(sys_id) > 0
                        /\ AskedSets(i) + AskedVars(i) = 0)
                    => ret[i].t = "str"

\* C3's case: a tool that reports a name has returned after such a 201.
C3_Witness ==
    \E i \in Invocations :
        /\ Created201(i) /\ ReturnedStr(i)
        /\ tool[i] = "create_business_rule"
        /\ Contains(ret[i].v, RemoteName) /\ Contains(ret[i].v, RemoteSysId)

\* The (parent) creation POST was answered 4xx with a JSON body
\* {"error": {"message": M, "detail": D}}.
Rejected4xx(i) ==
    /\ tool[i] \in CreationTools
    /\ Len(recv[i]) >= 1
    /\ First(i).kind = "http" /\ First(i).status >= 400 /\ First(i).status < 500
    /\ First(i).body.t = "obj" /\ HasKey(First(i).body, "error")
    /\ DictGet(First(i).body, "error", None).t = "obj"
    /\ HasKey(DictGet(First(i).body, "error", None), "message")
    /\ HasKey(DictGet(First(i).body, "error", None), "detail")

\* C4: after a 4xx answer {"error": {"message": M, "detail": D}} to the
\* (parent) creation POST, the string the tool returns contains M and D.
C4_ErrorMessageAndDetail ==
    \A i \in Invocations :
        (Rejected4xx(i) /\ Ended(i))
        => LET err == DictGet(First(i).body, "error", None)
           IN  /\ ret[i].t = "str"
               /\ Contains(ret[i].v, DictGet(err, "message", None).v)
               /\ Contains(ret[i].v, DictGet(err, "detail", None).v)

\* The parent creation of a composite tool was answered with a `result`
\* mapping that holds a non-empty sys_id.
GaveSysId(r) ==
    /\ r.kind = "http" /\ r.status \in {200, 201}
    /\ HasResult(r, "obj")
    /\ HasKey(ResultOf(r), "sys_id")
    /\ DictGet(ResultOf(r), "sys_id", None).t = "str"
    /\ Len(DictGet(ResultOf(r), "sys_id", None).v) > 0

\* How many tokens of text s are among the markers ms.
Markers(s, ms) == Cardinality({j \in 1..Len(s) : s[j] \in ms})
SetMarkers == {"Added variable set (ID: ", "Failed to add variable set (ID: ",
               "Error adding variable set (ID: "}
VarMarkers == {"Added variable '", "Failed to add variable '", "Error adding variable '"}

\* C5: once the parent creation has returned a sys_id, every requested
\* variable-set attachment and every requested variable gets exactly one
\* creation call whatever happened to the earlier ones (1 + sets + variables
\* calls in all), and the returned string holds the parent's name and sys_id
\* and one success or failure marker per dependent item.
C5_EveryItemOneCall ==
    \A i \in Invocations :
        (tool[i] \in CompositeTools /\ Ended(i) /\ GaveSysId(First(i)))
        => /\ Len(sent[i]) = 1 + AskedSets(i) + AskedVars(i)
           /\ ret[i].t = "str"
           /\ Contains(ret[i].v, ReportedName(i))
           /\ Contains(ret[i].v, DictGet(ResultOf(First(i)), "sys_id", None).v)
           /\ Markers(ret[i].v, SetMarkers) = AskedSets(i)
           /\ Markers(ret[i].v, VarMarkers) = AskedVars(i)

\* The parent creation was answered successfully with a mapping (the body's
\* `result`, or the synthetic mapping that stands in for a missing one) that
\* has no sys_id or an empty one.
AnsweredWithoutSysId(r) ==
    /\ r.kind = "http"
    /\ \/ r.status = 204
       \/ /\ r.status \in {200, 201}
          /\ r.body.t = "obj"
          /\ \/ ~HasKey(r.body, "result")
             \/ /\ HasResult(r, "obj")
                /\ \/ ~HasKey(ResultOf(r), "sys_id")
                   \/ DictGet(ResultOf(r), "sys_id", None) = JStr(<<>>)

NoSysIdError(t) ==
    IF t = "create_record_producer"
    THEN RetStr(<<"Error creating Record Producer: ", "No sys_id returned from ServiceNow.">>)
    ELSE RetStr(<<"Error creating Variable Set: ", "No sys_id returned from ServiceNow.">>)

\* C6: when the parent creation response of a composite tool carries no (or
\* an empty) sys_id, the tool returns an error string at once and issues no
\* dependent creation call, whatever was asked for: the invocation makes
\* exactly one HTTP request.
C6_NoSysIdNoDependents ==
    \A i \in Invocations :
        (tool[i] \in CompositeTools /\ Len(recv[i]) >= 1 /\ ~GaveSysId(First(i)))
        => /\ ReturnedStr(i)
           /\ ret[i].v[1] \in {"Error creating Record Producer: ",
                                "Error creating Variable Set: "}
           /\ Len(sent[i]) = 1
           /\ Len(recv[i]) = 1

\* The part of C6 that the code keeps: without a sys_id the invocation is
\* over after its one request, and a parent answered with a mapping that
\* lacks a sys_id yields the "No sys_id returned" error string.
OneRequestWithoutSysId ==
    \A i \in Invocations :
        (tool[i] \in CompositeTools /\ Len(recv[i]) >= 1 /\ ~GaveSysId(First(i)))
        => /\ Ended(i)
           /\ Len(sent[i]) = 1
           /\ Len(recv[i]) = 1
           /\ AnsweredWithoutSysId(First(i)) => ret[i] = NoSysIdError(tool[i])

ValidationError ==
    RetStr(<<"Error: 'field_name' is required when script_type is 'onChange'.">>)

\* No field_name: the argument is left out (None) or is the empty string.
NoFieldName(a) == a.field_name.t = "null" \/ a.field_name = JStr(<<>>)

\* C7: create_client_script called with script_type "onChange" and no
\* field_name returns the validation error and issues no request; called
\* with any other script_type, or with a field_name, it issues exactly one
\* request, a POST.
C7_OnChangeNeedsFieldName ==
    \A i \in Invocations :
        tool[i] = "create_client_script"
        => IF args[i].script_type = JStr(OnChange) /\ NoFieldName(args[i])
           THEN Ended(i) /\ ret[i] = ValidationError /\ Len(sent[i]) = 0
           ELSE Len(sent[i]) = 1 /\ sent[i][1].method = "POST"

\* C7's case: the validation error was returned for an empty field_name,
\* with nothing sent.
C7_Witness ==
    \E i \in Invocations :
        /\ tool[i] = "create_client_script" /\ Ended(i)
        /\ args[i].script_type = JStr(OnChange) /\ args[i].field_name = JStr(<<>>)
        /\ ret[i] = ValidationError /\ Len(sent[i]) = 0

\* Every HTTP call invocation i made so far failed at the network level.
AllNetFail(i) == \A j \in 1..Len(recv[i]) : recv[i][j].kind = "net"

ErrorIndicators ==
    {"Error creating incident: ", "Error creating KB article: ",
     "Error creating Client Script: ", "Error creating Business Rule: ",
     "Error creating SLA Definition: ", "Error creating Record Producer: ",
     "Error creating Variable Set: ", "Error retrieving ",
     "Error: 'field_name' is required when script_type is 'onChange'."}

\* C8: when every HTTP call fails at the network level, every tool ends by
\* returning a string that starts with an error indicator (nothing is
\* raised), and a composite tool stops after the failed parent call.
C8_NetworkFailureIsErrorString ==
    \A i \in Invocations :
        (Ended(i) /\ AllNetFail(i))
        => /\ ret[i].t = "str"
           /\ ret[i].v[1] \in ErrorIndicators
           /\ Len(recv[i]) >= 1 => Contains(ret[i].v, <<"Could not connect to ServiceNow: ">>)
           /\ Len(sent[i]) <= 1

\* C8's case: a composite tool asked for dependents and its parent call
\* failed at the network level.
C8_Witness ==
    \E i \in Invocations :
        /\ tool[i] = "create_record_producer" /\ AskedVars(i) >= 1
        /\ Len(recv[i]) = 1 /\ AllNetFail(i)
        /\ ReturnedStr(i) /\ ret[i].v[1] = "Error creating Record Producer: "

\* C9: the sysparm_limit a listing tool sends is min(limit, 100); it issues
\* that one GET; no GET carries a sysparm_limit above 100.
C9_LimitClamped ==
    \A i \in Invocations :
        /\ (tool[i] \in ListingTools)
            => /\ Len(sent[i]) = 1
               /\ sent[i][1].method = "GET"
               /\ DictGet(sent[i][1].payload, "sysparm_limit", None) =
                      JInt(IF args[i].limit < 100 THEN args[i].limit ELSE 100)
        /\ \A j \in 1..Len(sent[i]) :
               sent[i][j].method = "GET"
               => DictGet(sent[i][j].payload, "sysparm_limit", None).v <= 100

\* C9's case: limit=500 went out as sysparm_limit=100.
C9_Witness ==
    \E i \in Invocations :
        /\ tool[i] = "get_change_requests" /\ args[i].limit = 500
        /\ Len(sent[i]) = 1
        /\ DictGet(sent[i][1].payload, "sysparm_limit", None) = JInt(100)

DigitChars == {"0", "1", "2", "3", "4", "5", "6", "7", "8", "9"}
DigitVal(c) == CHOOSE d \in 0..9 : DigitChar(d) = c
TwoDigits(s, j) == 10 * DigitVal(s[j]) + DigitVal(s[j + 1])

\* s is "1970-01-01 HH:MM:SS" with two-digit fields that encode d seconds.
IsGlideClock(s, d) ==
    /\ Len(s) = 9
    /\ s[1] = "1970-01-01 "
    /\ \A j \in {2, 3, 5, 6, 8, 9} : s[j] \in DigitChars
    /\ s[4] = ":" /\ s[7] = ":"
    /\ TwoDigits(s, 5) < 60 /\ TwoDigits(s, 8) < 60
    /\ TwoDigits(s, 2) * 3600 + TwoDigits(s, 5) * 60 + TwoDigits(s, 8) = d

\* C10: for every integer duration_seconds, the `duration` field that
\* create_sla_definition posts is "1970-01-01 HH:MM:SS" (two-digit hours,
\* minutes, seconds encoding the count); 28800 gives "1970-01-01 08:00:00".
C10_DurationFormat ==
    \A i \in Invocations :
        (tool[i] = "create_sla_definition" /\ Len(sent[i]) >= 1)
        => LET duration == DictGet(sent[i][1].payload, "duration", None).v
           IN  /\ IsGlideClock(duration, args[i].duration_seconds)
               /\ args[i].duration_seconds = 28800
                    => duration = <<"1970-01-01 ", "0", "8", ":", "0", "0", ":", "0", "0">>

\* The fixed table of type names and their remote codes.
TypeCodes ==
    { <<"string", <<"2">>>>, <<"integer", <<"9">>>>, <<"boolean", <<"6">>>>,
      <<"reference", <<"8">>>>, <<"choice", <<"3">>>>, <<"text", <<"1">>>>,
      <<"date", <<"5">>>>, <<"datetime", <<"4">>>>, <<"currency", <<"1", "0">>>>,
      <<"price", <<"7">>>> }

\* The characters of a type name of the table.
Spelled(w) ==
    CASE w = "string" -> <<"s", "t", "r", "i", "n", "g">>
      [] w = "integer" -> <<"i", "n", "t", "e", "g", "e", "r">>
      [] w = "boolean" -> <<"b", "o", "o", "l", "e", "a", "n">>
      [] w = "reference" -> <<"r", "e", "f", "e", "r", "e", "n", "c", "e">>
      [] w = "choice" -> <<"c", "h", "o", "i", "c", "e">>
      [] w = "text" -> <<"t", "e", "x", "t">>
      [] w = "date" -> <<"d", "a", "t", "e">>
      [] w = "datetime" -> <<"d", "a", "t", "e", "t", "i", "m", "e">>
      [] w = "currency" -> <<"c", "u", "r", "r", "e", "n", "c", "y">>
      [] OTHER -> <<"p", "r", "i", "c", "e">>

\* The code the table gives for a definition: that of its type name (in
\* whatever letter case it is written), "2" when the type is omitted or is
\* not a name of the table.
ExpectedTypeCode(var_def) ==
    LET given == IF HasKey(var_def, "type")
                 THEN Lower(DictGet(var_def, "type", None).v) ELSE <<>>
        hits == { p \in TypeCodes : given = Spelled(p[1]) }
    IN  IF hits = {} THEN <<"2">> ELSE (CHOOSE p \in hits : TRUE)[2]

\* The requests of invocation i that create a variable.
VarEndpoints ==
    { <<"api/now/table/", "item_option_new">>, <<"api/now/table/", "io_set_variable">> }
VarRequests(i) == { j \in 1..Len(sent[i]) : sent[i][j].endpoint \in VarEndpoints }

\* order = (idx + 1) * 100 names the definition a variable request is for.
DefOf(i, j) ==
    args[i].variables.v[DictGet(sent[i][j].payload, "order", None).v \div 100]

\* C11: in both composite tools, the `type` of every variable's POST
\* payload is the code the fixed table gives for the definition's type name
\* (string 2, integer 9, boolean 6, reference 8, choice 3, text 1, date 5,
\* datetime 4, currency 10, price 7), and "2" when the type is omitted or
\* unrecognised.
C11_TypeCodeFromTable ==
    \A i \in Invocations : \A j \in VarRequests(i) :
        /\ tool[i] \in CompositeTools
        /\ DictGet(sent[i][j].payload, "type", None) = JStr(ExpectedTypeCode(DefOf(i, j)))

\* C11's case: create_variable_set has posted a currency definition with the
\* code "10".
C11_Witness ==
    \E i \in Invocations : \E j \in VarRequests(i) :
        /\ tool[i] = "create_variable_set"
        /\ DictGet(DefOf(i, j), "type", None) = JStr(Spelled("currency"))
        /\ DictGet(sent[i][j].payload, "type", None) = JStr(<<"1", "0">>)

\* Invocation i of a composite tool ended successfully: it returned the
\* parent's confirmation.
Succeeded(i) ==
    /\ tool[i] \in CompositeTools /\ ReturnedStr(i)
    /\ ret[i].v[1] \in {"Successfully created Record Producer '",
                        "Successfully created Variable Set '"}

NoVariablesNote == " No variables were added."

\* C12: the string a successful composite tool returns ends with the "No
\* variables were added." note exactly when no dependent item was requested;
\* when some were, it carries no note but, for each requested kind, one
\* list ("Variable Sets: " before "Variables: ") of that kind's outcomes
\* joined by "; ".
C12_NoteOrOutcomeLists ==
    \A i \in Invocations :
        Succeeded(i)
        => LET s == ret[i].v
               nothing == AskedSets(i) + AskedVars(i) = 0
               Separators == (IF AskedSets(i) > 0 THEN AskedSets(i) - 1 ELSE 0)
                               + (IF AskedVars(i) > 0 THEN AskedVars(i) - 1 ELSE 0)
           IN  /\ (s[Len(s)] = NoVariablesNote) <=> nothing
               /\ Markers(s, {NoVariablesNote}) = IF nothing THEN 1 ELSE 0
               /\ Markers(s, {"Variable Sets: "}) = IF AskedSets(i) > 0 THEN 1 ELSE 0
               /\ Markers(s, {"Variables: "}) = IF AskedVars(i) > 0 THEN 1 ELSE 0
               /\ Markers(s, SetMarkers) = AskedSets(i)
               /\ Markers(s, VarMarkers) = AskedVars(i)
               /\ Markers(s, {"; "}) = Separators
               /\ \A j, k \in 1..Len(s) :
                      (s[j] \in SetMarkers \cup {"Variable Sets: "}
                          /\ s[k] \in VarMarkers \cup {"Variables: "}) => j < k

\* C12's case: create_record_producer, asked for two variable sets and no
\* variables, has returned its confirmation with their outcome list.
C12_Witness ==
    \E i \in Invocations :
        /\ tool[i] = "create_record_producer" /\ Succeeded(i)
        /\ AskedSets(i) = 2 /\ AskedVars(i) = 0
        /\ Markers(ret[i].v, {"; "}) = 1
        /\ ret[i].v[Len(ret[i].v)] # NoVariablesNote

\* The calls of invocation i that have completed, and what the helper made
\* of each one's response.
Completed(i) == 1..Len(recv[i])
HelperOutcome(i, j) == _make_servicenow_request(sent[i][j].method, recv[i][j])

\* r is a 4xx/5xx answer whose JSON body holds an `error` object.
HasErrorObject(r) ==
    /\ r.kind = "http" /\ r.status >= 400 /\ r.status < 600
    /\ r.body.t = "obj" /\ HasKey(r.body, "error")
    /\ DictGet(r.body, "error", None).t = "obj"

\* C13: for a 4xx/5xx answer whose JSON body holds an `error` object, the
\* error _make_servicenow_request raises reads "ServiceNow API Error:
\* <message> - <detail>", built from that object's sub-fields; the raw "HTTP
\* Error: <status> - <body text>" message is used only when the body is not
\* JSON or holds no parseable error object.
C13_ErrorFromMessageAndDetail ==
    \A i \in Invocations : \A j \in Completed(i) :
        LET r == recv[i][j]
            h == HelperOutcome(i, j)
        IN  /\ HasErrorObject(r)
                => LET err == DictGet(r.body, "error", None)
                   IN  /\ ~h.ok
                       /\ h.msg = <<"ServiceNow API Error: ">>
                                     \o DictGet(err, "message", None).v \o <<" - ">>
                                     \o DictGet(err, "detail", None).v
            /\ (~h.ok /\ h.msg[1] = "HTTP Error: ") => ~HasErrorObject(r)

\* The mappings that stand in for a missing `result`.
NoContentMapping ==
    JObj(<<F("status", JStr(<<"success">>)),
           F("message", JStr(<<"Operation successful (No Content)">>))>>)
CreatedMapping ==
    JObj(<<F("status", JStr(<<"success">>)), F("message", JStr(<<"Record created">>))>>)
EmptyMapping == JObj(<<>>)

Successful(r) == r.kind = "http" /\ r.status >= 200 /\ r.status < 300

\* The body's `result` field if present, else the stand-in.
ResultOr(r, standin) ==
    IF r.body.t = "obj" /\ HasKey(r.body, "result")
    THEN DictGet(r.body, "result", None) ELSE standin

\* What a successful response is to be normalised to.
Normalised(r) ==
    IF r.status = 204 THEN NoContentMapping
    ELSE IF r.status = 201 THEN ResultOr(r, CreatedMapping)
    ELSE ResultOr(r, EmptyMapping)

\* C14 as stated: for every successful response the helper returns the
\* synthetic no-content mapping on 204 (body unparsed), on 201 the body's
\* `result` if present, else the synthetic created mapping, and on any other
\* 2xx the body's `result` if present, else an empty mapping.
C14_SuccessNormalised ==
    \A i \in Invocations : \A j \in Completed(i) :
        Successful(recv[i][j]) => HelperOutcome(i, j) = Return(Normalised(recv[i][j]))

\* C14 amended: that holds for status 204 whatever the body, and for every
\* other 2xx whose body is a JSON object; for a 2xx other than 204 whose
\* body is not JSON the helper raises the ValueError "Unexpected error
\* during ServiceNow request: JSONDecodeError - ...".
C14_JsonSuccessNormalised ==
    \A i \in Invocations : \A j \in Completed(i) :
        LET r == recv[i][j]
            h == HelperOutcome(i, j)
        IN  Successful(r)
            => /\ (r.status = 204 \/ r.body.t = "obj") => h = Return(Normalised(r))
               /\ (r.status # 204 /\ r.body.t = "raw")
                    => /\ ~h.ok /\ h.exc = "ValueError"
                       /\ h.msg[1] = "Unexpected error during ServiceNow request: "
                       /\ h.msg[2] = "JSONDecodeError"

\* C14's case: one invocation's calls were answered 201 with a `result`, 201
\* without one and 202 without one, and the helper returned the `result`,
\* the created mapping and the empty mapping.
C14_Witness ==
    \E i \in Invocations :
        /\ tool[i] = "create_record_producer" /\ Ended(i) /\ Len(recv[i]) = 3
        /\ recv[i][1].status = 201 /\ HelperOutcome(i, 1).val = ResultOf(recv[i][1])
        /\ recv[i][2].status = 201 /\ HelperOutcome(i, 2) = Return(CreatedMapping)
        /\ recv[i][3].status = 202 /\ HelperOutcome(i, 3) = Return(EmptyMapping)

\* The requests of invocation i that have no response yet.
InFlight(i) == Len(sent[i]) - Len(recv[i])

\* What tells one request of a composite tool from another: its table and,
\* for a dependent request, the variable set it attaches or the display
\* order and type code of the variable it creates.
RequestMark(q) ==
    IF q.endpoint[2] = "io_set_item"
    THEN <<q.endpoint[2], DictGet(q.payload, "variable_set", None)>>
    ELSE IF q.endpoint \in VarEndpoints
    THEN <<q.endpoint[2], DictGet(q.payload, "order", None),
           DictGet(q.payload, "type", None)>>
    ELSE <<q.endpoint[2]>>

\* The marks of all the requests a composite invocation is to issue, in the
\* fixed order: parent, variable sets as listed, variables as listed.
FixedOrder(i) ==
    LET producer == tool[i] = "create_record_producer"
        sets == IF producer /\ args[i].variable_set_ids.t = "arr"
                THEN args[i].variable_set_ids.v ELSE <<>>
        vs == IF args[i].variables.t = "arr" THEN args[i].variables.v ELSE <<>>
    IN  << <<IF producer THEN "sc_cat_item_producer" ELSE "io_set">> >>
          \o [k \in 1..Len(sets) |-> <<"io_set_item", sets[k]>>]
          \o [k \in 1..Len(vs) |->
                <<IF producer THEN "item_option_new" ELSE "io_set_variable",
                  JInt(100 * k), JStr(ExpectedTypeCode(vs[k]))>>]

\* C15: within one composite invocation at most one HTTP request is in
\* flight at any time, and the requests are issued in the fixed order (the
\* parent, then the variable sets in the order of variable_set_ids, then the
\* variables in list order), each one only after the one before it has
\* completed.
C15_SequentialFixedOrder ==
    \A i \in Invocations :
        tool[i] \in CompositeTools
        => LET order == FixedOrder(i)
           IN  /\ InFlight(i) \in {0, 1}
               /\ InFlight(i) = 1 <=> pc[i] = "awaiting"
               /\ Len(sent[i]) <= Len(order)
               /\ \A j \in 1..Len(sent[i]) : RequestMark(sent[i][j]) = order[j]

\* C15's case: create_record_producer has issued, one after the other, the
\* parent request, a variable-set attachment and a variable.
C15_Witness ==
    \E i \in Invocations :
        /\ tool[i] = "create_record_producer" /\ Ended(i)
        /\ AskedSets(i) = 1 /\ AskedVars(i) = 1
        /\ Len(sent[i]) = 3 /\ Len(recv[i]) = 3
        /\ sent[i][2].endpoint[2] = "io_set_item"
        /\ sent[i][3].endpoint[2] = "item_option_new"

\* The call was answered with a failure: a network failure, a 4xx/5xx, or a
\* body that cannot be parsed.
FailedCall(r) ==
    \/ r.kind = "net"
    \/ r.kind = "http" /\ r.status >= 400
    \/ r.kind = "http" /\ r.status # 204 /\ r.body.t = "raw"

ParentTables == {"sc_cat_item_producer", "io_set"}

\* C16: a non-composite creation tool issues at most one request, a POST; a
\* listing tool issues exactly one GET; no request is ever issued twice, so
\* a failed one is never retried; and after a failure no tool issues
\* anything but the creation of the next dependent item: a composite tool
\* sends POSTs only, at most one per item, and addresses the parent's table
\* in its first request alone, so the parent it created is left as it is.
C16_SinglePostNoRetry ==
    \A i \in Invocations :
        /\ tool[i] \in CreationTools \ CompositeTools
            => /\ Len(sent[i]) <= 1
               /\ \A j \in 1..Len(sent[i]) : sent[i][j].method = "POST"
        /\ tool[i] \in ListingTools
            => Len(sent[i]) = 1 /\ sent[i][1].method = "GET"
        /\ \A j, k \in 1..Len(sent[i]) : j # k => sent[i][j] # sent[i][k]
        /\ tool[i] \in CompositeTools
            => /\ Len(sent[i]) <= 1 + AskedSets(i) + AskedVars(i)
               /\ \A j \in 1..Len(sent[i]) :
                      /\ sent[i][j].method = "POST"
                      /\ sent[i][j].endpoint[1] = "api/now/table/"
                      /\ sent[i][j].endpoint[2] \in ParentTables <=> j = 1
               /\ (Len(recv[i]) >= 1 /\ FailedCall(First(i))) => Len(sent[i]) = 1

\* C16's case: create_variable_set was asked for two variables; the first
\* one's creation failed, the second one's was then issued, and the tool
\* has returned its confirmation of the parent.
C16_Witness ==
    \E i \in Invocations :
        /\ tool[i] = "create_variable_set" /\ Succeeded(i)
        /\ AskedVars(i) = 2 /\ Len(sent[i]) = 3
        /\ FailedCall(recv[i][2])
        /\ Contains(ret[i].v, <<"Error adding variable '">>)

\* C17: with invocations interleaved at their awaits, the requests each one
\* issues and what it returns are those of the same tool run alone with the
\* same arguments and the same responses to its own requests.
C17_AsWhenAlone ==
    \A i \in Hosted :
        tool[i] # "none"
        => LET alone == Alone(tool[i], args[i], recv[i])
           IN  /\ sent[i] = alone.req
               /\ ret[i] = alone.ret
               /\ (pc[i] = "done") <=> (Len(alone.req) = Len(recv[i]))

\* C17's case: a create_record_producer and a create_variable_set invocation
\* are suspended at the same time, each after having been resumed already,
\* the one past a failed dependent call and the other past its parent call.
C17_Witness ==
    /\ tool[1] = "create_record_producer" /\ tool[2] = "create_variable_set"
    /\ pc[1] = "awaiting" /\ pc[2] = "awaiting"
    /\ Len(recv[1]) = 2 /\ recv[1][2].kind = "net"
    /\ Len(recv[2]) = 1 /\ recv[2][1].kind = "http"
    /\ sent[1] = Alone(tool[1], args[1], recv[1]).req
    /\ sent[2] = Alone(tool[2], args[2], recv[2]).req

====
